---- MODULE Spec2Model ----
(***************************************************************************)
(* Model of the DESFire host library: the APDU codec (card/apdu.ts), the   *)
(* transmit engine and the authentication handshakes of DESFireCard        *)
(* (card/desfire.ts).  Buffers are sequences of bytes; a nullable field is *)
(* the empty tuple (null) or a one-element tuple holding its value.        *)
(***************************************************************************)
EXTENDS Integers, Sequences, FiniteSets, TLC

VARIABLES
  env,                \* the card and reader in use: how often they continue or
                      \* fail, the error status words they answer with and the
                      \* responses too short to parse they hand back
  acr,                \* isACR122U(this.reader): fixed per reader
  currentApp,         \* DESFireCard.currentApp
  preferNoLe,         \* DESFireCard.preferNoLe
  authenticated,      \* DESFireCard.authenticated
  authenticatedKeyNo, \* DESFireCard.authenticatedKeyNo
  sessionKeyEnc,      \* DESFireCard.sessionKeyEnc
  sessionKeyMac,      \* DESFireCard.sessionKeyMac
  transactionId,      \* DESFireCard.transactionId
  commandCounter,     \* DESFireCard.commandCounter
  pc,                 \* position of the running operation
  op,                 \* the running (or last finished) high-level operation
  caller,             \* which method called tryTransmitAttempts / sendCommand
  attempts,           \* tryTransmitAttempts: the attempts not yet transmitted
  ret,                \* value returned (or error thrown) by the callee
  acc,                \* payload collected so far by sendCommand/getAdditionalFrame
  wire,               \* every transmission of the running operation, in order
  result,             \* outcome of the last finished operation
  hist,               \* history: what has happened to the session so far
  call,               \* the call of a codec or helper function being evaluated
  server              \* the web server: lastCardInfo.present and its handlers

vars == << env, acr, currentApp, preferNoLe, authenticated, authenticatedKeyNo,
           sessionKeyEnc, sessionKeyMac, transactionId, commandCounter,
           pc, op, caller, attempts, ret, acc, wire, result, hist, call, server >>

session == << authenticated, authenticatedKeyNo, sessionKeyEnc, sessionKeyMac,
              transactionId, commandCounter >>

control == << caller, attempts, ret, acc >>

\* the state of the application around the DESFireCard
application == << call, server >>

----------------------------------------------------------------------------
(* Bounds of the exploration *)

\* the card answers 91 AF to at most this many transmissions of one operation:
\* while the session is explored, and while the transmit engine is explored
SessionContinuations == 1
MaxContinuations == 2
\* transport faults (exception, missing or short response) per operation
MaxFaults == 1
\* while the framing of getVersion and writeData is explored: continuation
\* answers per operation, and the longest buffer handed to writeData
FrameContinuations == 3
\* transport faults per operation while the transport fallbacks are explored
TransportFaults == 2
MaxWriteLen == 130
\* while the web server is explored: the handlers that run at the same time,
\* and the frames one library call puts on the reader
MaxHandlers == 2
ServerFrames == 2
\* and the payment requests the server receives
MaxPayments == 2

----------------------------------------------------------------------------
(* Values *)

Null == << >>
Some(x) == << x >>
IsNull(o) == o = << >>
Value(o) == o[1]

Fill(n, b) == [i \in 1..n |-> b]

Min(a, b) == IF a < b THEN a ELSE b

Apps == {0, 1}
KeyNos == {0, 1}
\* the `key` argument of the authenticate methods: absent, 16 bytes, 8 bytes
KeyArgs == {Null, Some(Fill(16, 0)), Some(Fill(8, 0))}
\* the `newKey` argument of changeKey and changeKeyEV2: 16 bytes, 8 bytes
NewKeys == {Fill(16, 17), Fill(8, 17)}
\* payload lengths the card answers with
PayloadLens == {0, 8, 16, 20}
\* the `data` argument of writeData: n distinct bytes
Data(n) == [i \in 1..n |-> i % 256]
WriteLens == 1..MaxWriteLen
\* payload lengths of the answers that ask for continuation
ContinuationLens == {16}

\* DesfireCommand
SELECT_APPLICATION == 90
GET_FILE_IDS == 111
READ_DATA == 189
AUTHENTICATE == 10
AUTHENTICATE_AES == 170
AUTHENTICATE_EV2_FIRST == 113
AUTHENTICATE_EV2_NON_FIRST == 119
CHANGE_KEY_SETTINGS == 84
ADDITIONAL_FRAME == 175
GET_VERSION == 96
WRITE_DATA == 61
CHANGE_KEY == 196
CHANGE_KEY_EV2 == 198
INITIALIZE_KEY_SET == 86
ROLL_KEY_SET == 85
FINALIZE_KEY_SET == 87
FORMAT_PICC == 252
GET_APPLICATION_IDS == 106
GET_VALUE == 108
CREDIT == 12
DEBIT == 220
COMMIT_TRANSACTION == 199
GET_FREE_MEMORY == 110

\* status words <<SW1, SW2>> the card answers with
SW_OK == << 145, 0 >>
SW_AF == << 145, 175 >>
SW_LENGTH_ERROR == << 145, 126 >>
SW_AUTHENTICATION_ERROR == << 145, 174 >>

----------------------------------------------------------------------------
(* APDU codec *)

\* Buffer.writeUIntLE(v, 0, 3)
UIntLE3(v) == << v % 256, (v \div 256) % 256, (v \div 65536) % 256 >>

\* APDU.build; data and le are nullable, an empty Buffer is not null
APDU_build(cla, ins, p1, p2, data, le) ==
  LET header == << cla, ins, p1, p2 >> IN
  IF IsNull(data) /\ IsNull(le) THEN header
  ELSE IF IsNull(data) THEN header \o << Value(le) >>
  ELSE IF IsNull(le) THEN header \o << Len(Value(data)) >> \o Value(data)
  ELSE header \o << Len(Value(data)) >> \o Value(data) \o << Value(le) >>

\* APDU.buildDESFire; le defaults to 0 when the caller passes none
APDU_buildDESFire(cmd, data, le) ==
  APDU_build(144, cmd, 0, 0, data, IF IsNull(le) THEN Some(0) ELSE le)

\* APDU.isSuccess
APDU_isSuccess(sw1, sw2) == (sw1 = 144 /\ sw2 = 0) \/ (sw1 = 145 /\ sw2 = 0)

\* APDU.isAdditionalFrame
APDU_isAdditionalFrame(sw1, sw2) == sw1 = 145 /\ sw2 = 175

\* the length-error test of tryTransmitAttempts
IsLengthError(sw1, sw2) == sw1 = 145 /\ (sw2 = 126 \/ sw2 = 161)

\* a thrown error
Thrown(msg) == [ok |-> FALSE, sw1 |-> 0, sw2 |-> 0, data |-> << >>, err |-> msg]

\* an APDU.parse that accepts any response and reads missing bytes as zero
APDU_parse_lenient(response) ==
  [ok |-> TRUE,
   sw1 |-> IF Len(response) >= 2 THEN response[Len(response) - 1] ELSE 0,
   sw2 |-> IF Len(response) >= 1 THEN response[Len(response)] ELSE 0,
   data |-> SubSeq(response, 1, Len(response) - 2),
   err |-> ""]

\* APDU.parse: the last two bytes are SW1 SW2, the rest is the payload
APDU_parse(response) ==
  IF Len(response) < 2 THEN Thrown("too short")
  ELSE [ok |-> TRUE,
        sw1 |-> response[Len(response) - 1],
        sw2 |-> response[Len(response)],
        data |-> SubSeq(response, 1, Len(response) - 2),
        err |-> ""]

----------------------------------------------------------------------------
(* Reader transport and card: the environment *)

\* one transmission: the bytes sent, the channel, whether the call raised,
\* and the bytes received (empty when it raised or nothing came back)
Tx(apdu, rx) == [apdu |-> apdu, chan |-> "transmit", exc |-> FALSE, rx |-> rx]
TxRaise(apdu) == [apdu |-> apdu, chan |-> "transmit", exc |-> TRUE, rx |-> << >>]
Esc(apdu, rx) == [apdu |-> apdu, chan |-> "escape", exc |-> FALSE, rx |-> rx]

IsFault(e) == e.exc \/ Len(e.rx) < 2
IsContinuation(e) ==
  Len(e.rx) >= 2 /\ APDU_isAdditionalFrame(e.rx[Len(e.rx) - 1], e.rx[Len(e.rx)])

Faults(w) == Cardinality({i \in 1..Len(w) : IsFault(w[i])})
Continuations(w) == Cardinality({i \in 1..Len(w) : IsContinuation(w[i])})

\* the answers the card can give to the next transmission: a payload with
\* success or continuation, or a bare error status
CardAnswers(w) ==
  LET b == 1 + Continuations(w) IN
    {Fill(n, b) \o SW_OK : n \in PayloadLens}
    \cup (IF Continuations(w) < env.continuations
          THEN {Fill(n, b) \o SW_AF : n \in ContinuationLens} ELSE {})
    \cup env.errors

\* what the transport hands back when no parsable response arrived: nothing,
\* or, on the readers explored for it, a single byte
ShortAnswers == env.short

----------------------------------------------------------------------------
(* Transmit engine *)

\* a transmitParsed that does not retry after an exception
TransmitWithRetry_noRetry(apdu, w) ==
  {[log |-> << Tx(apdu, rx) >>, resp |-> Some(rx)] : rx \in CardAnswers(w) \cup ShortAnswers}
  \cup {[log |-> << TxRaise(apdu) >>, resp |-> Null]}

\* transmitParsed, step 1: reader.transmit with one retry after an exception;
\* `resp` is the local `response` (null when both calls raised)
TransmitWithRetry(apdu, w) ==
  {[log |-> << Tx(apdu, rx) >>, resp |-> Some(rx)] : rx \in CardAnswers(w) \cup ShortAnswers}
  \cup {[log |-> << TxRaise(apdu), Tx(apdu, rx) >>, resp |-> Some(rx)] :
          rx \in CardAnswers(w) \cup ShortAnswers}
  \cup {[log |-> << TxRaise(apdu), TxRaise(apdu) >>, resp |-> Null]}

\* transmitParsed, step 2: the ACR122U escape pass-through (an empty answer
\* stands for transmitViaAcr122U returning an empty Buffer)
EscapeFallback(apdu, w) ==
  IF acr THEN {<< Esc(apdu, rx) >> : rx \in CardAnswers(w) \cup ShortAnswers}
  ELSE {<< >>}

\* transmitParsed, step 3: the APDU with Le presence toggled (no-data APDUs)
ToggledApdu(apdu) ==
  IF Len(apdu) = 4 THEN Some(apdu \o << 0 >>)
  ELSE IF Len(apdu) = 5 /\ apdu[5] = 0 THEN Some(SubSeq(apdu, 1, 4))
  ELSE Null

ToggleFallback(apdu, w) ==
  IF IsNull(ToggledApdu(apdu)) THEN {<< >>}
  ELSE {<< Tx(Value(ToggledApdu(apdu)), rx) >> : rx \in CardAnswers(w) \cup ShortAnswers}
       \cup {<< TxRaise(Value(ToggledApdu(apdu))) >>}

Answered(log) == log # << >> /\ Len(log[Len(log)].rx) >= 2

\* transmitParsed: every outcome [log, ret] of one call, ret being the parsed
\* response or the error APDU.parse throws on a missing or short response
TransmitParsedAll(apdu, w) ==
  UNION {
    IF ~IsNull(f.resp) /\ Len(Value(f.resp)) >= 2
    THEN {[log |-> f.log, ret |-> APDU_parse(Value(f.resp))]}
    ELSE UNION {
      IF Answered(e)
      THEN {[log |-> f.log \o e, ret |-> APDU_parse(e[1].rx)]}
      ELSE UNION {
        IF Answered(t)
        THEN {[log |-> f.log \o e \o t, ret |-> APDU_parse(t[1].rx)]}
        ELSE {[log |-> f.log \o e \o t,
               ret |-> APDU_parse(IF IsNull(f.resp) THEN << >> ELSE Value(f.resp))]}
        : t \in ToggleFallback(apdu, w \o f.log \o e) }
      : e \in EscapeFallback(apdu, w \o f.log) }
    : f \in TransmitWithRetry(apdu, w) }

\* the outcomes within the fault bound
TransmitParsed(apdu, w) ==
  {o \in TransmitParsedAll(apdu, w) : Faults(w \o o.log) <= env.faults}

\* the two encodings of one command, in the order of the current preference
LeAttempts(ins, data) ==
  LET noLe == [apdu |-> APDU_build(144, ins, 0, 0, data, Null), usesLe |-> FALSE]
      withLe == [apdu |-> APDU_build(144, ins, 0, 0, data, Some(0)), usesLe |-> TRUE]
  IN IF preferNoLe THEN << noLe, withLe >> ELSE << withLe, noLe >>

\* sendCommand: the attempts it builds (`data && data.length`)
SendCommandAttempts(cmd, data) ==
  IF ~IsNull(data) /\ Len(Value(data)) > 0 THEN LeAttempts(cmd, data)
  ELSE LeAttempts(cmd, Null)

\* Buffer.concat with its arguments in the wrong order
Concat_swapped(a, b) == b \o a

\* Buffer.concat([a, b])
Concat(a, b) == a \o b

NoRet == [ok |-> TRUE, sw1 |-> 0, sw2 |-> 0, data |-> << >>, err |-> ""]
NoOp == [name |-> "none", aid |-> 0, keyNo |-> 0, step |-> 0,
         rndA |-> << >>, rndB |-> << >>,
         style |-> "none", lastErr |-> NoRet, data |-> << >>, sent |-> 0]
NoResult == [name |-> "none", ok |-> TRUE, sw1 |-> 0, sw2 |-> 0, data |-> << >>, err |-> ""]

\* an error that carries the status word of the parsed response
StatusError(msg, parsed) == [Thrown(msg) EXCEPT !.sw1 = parsed.sw1, !.sw2 = parsed.sw2]

\* an operation starts: nothing of it is on the wire yet
Begin(o) ==
  /\ pc = "idle"
  /\ op' = o
  /\ wire' = << >>

\* the operation calls sendCommand(cmd, data)
CallSendCommand(cmd, data) ==
  /\ caller' = "sendCommand"
  /\ attempts' = SendCommandAttempts(cmd, data)
  /\ acc' = << >>
  /\ ret' = NoRet
  /\ pc' = "try"
  /\ result' = NoResult

\* the operation `name` returns or throws: r is what the caller of the
\* library sees
FinishAs(name, r) ==
  /\ pc' = "done"
  /\ result' = [name |-> name, ok |-> r.ok, sw1 |-> r.sw1, sw2 |-> r.sw2,
                data |-> r.data, err |-> r.err]
  /\ caller' = "none"
  /\ attempts' = << >>
  /\ ret' = NoRet
  /\ acc' = << >>

\* the running operation returns or throws
Finish(r) == FinishAs(op.name, r)

\* tryTransmitAttempts: one iteration of its loop (one transmitParsed call)
TryTransmitAttempts ==
  /\ pc = "try"
  /\ \E o \in TransmitParsed(attempts[1].apdu, wire) :
       /\ wire' = wire \o o.log
       /\ IF ~o.ret.ok
          THEN /\ ret' = o.ret
               /\ pc' = "parsed"
               /\ attempts' = << >>
               /\ UNCHANGED preferNoLe
          ELSE IF APDU_isSuccess(o.ret.sw1, o.ret.sw2)
                  \/ APDU_isAdditionalFrame(o.ret.sw1, o.ret.sw2)
          THEN /\ preferNoLe' = ~attempts[1].usesLe
               /\ ret' = o.ret
               /\ pc' = "parsed"
               /\ attempts' = << >>
          ELSE IF ~IsLengthError(o.ret.sw1, o.ret.sw2) \/ Len(attempts) = 1
          THEN /\ ret' = o.ret
               /\ pc' = "parsed"
               /\ attempts' = << >>
               /\ UNCHANGED preferNoLe
          ELSE /\ attempts' = Tail(attempts)
               /\ UNCHANGED << ret, pc, preferNoLe >>
  /\ UNCHANGED << env, acr, application, currentApp, session, op, caller, acc, result, hist >>

\* getAdditionalFrame: the attempts of one continuation request
AdditionalFrameAttempts == LeAttempts(ADDITIONAL_FRAME, Null)

\* a sendCommand that asks for an additional frame after every answer the
\* card accepted, continuation or not
SendCommandReturn_alwaysFetch ==
  /\ pc = "parsed"
  /\ caller = "sendCommand"
  /\ IF ~ret.ok
     THEN pc' = "cmdret" /\ UNCHANGED << ret, acc, caller, attempts >>
     ELSE IF ~APDU_isSuccess(ret.sw1, ret.sw2) /\ ~APDU_isAdditionalFrame(ret.sw1, ret.sw2)
     THEN /\ ret' = StatusError("DESFire command failed", ret)
          /\ pc' = "cmdret"
          /\ UNCHANGED << acc, caller, attempts >>
     ELSE /\ acc' = ret.data
          /\ caller' = "getAdditionalFrame"
          /\ attempts' = AdditionalFrameAttempts
          /\ pc' = "try"
          /\ UNCHANGED ret
  /\ UNCHANGED << env, acr, application, currentApp, preferNoLe, session, op, wire, result, hist >>

\* sendCommand after tryTransmitAttempts returned
SendCommandReturn ==
  /\ pc = "parsed"
  /\ caller = "sendCommand"
  /\ IF ~ret.ok
     THEN pc' = "cmdret" /\ UNCHANGED << ret, acc, caller, attempts >>
     ELSE IF ~APDU_isSuccess(ret.sw1, ret.sw2) /\ ~APDU_isAdditionalFrame(ret.sw1, ret.sw2)
     THEN /\ ret' = StatusError("DESFire command failed", ret)
          /\ pc' = "cmdret"
          /\ UNCHANGED << acc, caller, attempts >>
     ELSE IF APDU_isAdditionalFrame(ret.sw1, ret.sw2)
     THEN /\ acc' = ret.data
          /\ caller' = "getAdditionalFrame"
          /\ attempts' = AdditionalFrameAttempts
          /\ pc' = "try"
          /\ UNCHANGED ret
     ELSE /\ ret' = [NoRet EXCEPT !.data = ret.data]
          /\ pc' = "cmdret"
          /\ UNCHANGED << acc, caller, attempts >>
  /\ UNCHANGED << env, acr, application, currentApp, preferNoLe, session, op, wire, result, hist >>

\* getAdditionalFrame after tryTransmitAttempts returned; acc holds the
\* payloads of the frames before this one, which the callers prepend
GetAdditionalFrameReturn ==
  /\ pc = "parsed"
  /\ caller = "getAdditionalFrame"
  /\ IF ~ret.ok
     THEN pc' = "cmdret" /\ UNCHANGED << ret, acc, attempts >>
     ELSE IF APDU_isAdditionalFrame(ret.sw1, ret.sw2)
     THEN /\ acc' = Concat(acc, ret.data)
          /\ attempts' = AdditionalFrameAttempts
          /\ pc' = "try"
          /\ UNCHANGED ret
     ELSE /\ ret' = [NoRet EXCEPT !.data = Concat(acc, ret.data)]
          /\ pc' = "cmdret"
          /\ UNCHANGED << acc, attempts >>
  /\ UNCHANGED << env, acr, application, currentApp, preferNoLe, session, op, caller, wire, result, hist >>

----------------------------------------------------------------------------
(* Session state *)

\* a resetAuth that forgets to drop the session keys
resetAuth_keepsKeys ==
  /\ authenticated' = FALSE
  /\ authenticatedKeyNo' = Null
  /\ UNCHANGED << sessionKeyEnc, sessionKeyMac >>
  /\ transactionId' = Null
  /\ commandCounter' = 0

\* resetAuth (the zero-filled key buffers are dropped with the references)
resetAuth ==
  /\ authenticated' = FALSE
  /\ authenticatedKeyNo' = Null
  /\ sessionKeyEnc' = Null
  /\ sessionKeyMac' = Null
  /\ transactionId' = Null
  /\ commandCounter' = 0

\* the history of a session that resetAuth has just cleared
HistCleared == [ev2First |-> FALSE, authApp |-> Null, method |-> "none"]

\* the caller invokes resetAuth()
ResetAuth ==
  /\ Begin([NoOp EXCEPT !.name = "resetAuth"])
  /\ resetAuth
  /\ FinishAs("resetAuth", NoRet)
  /\ hist' = HistCleared
  /\ UNCHANGED << env, acr, application, currentApp, preferNoLe >>

----------------------------------------------------------------------------
(* Application and file operations *)

\* selectApplication(aid), up to its sendCommand
SelectApplication(aid) ==
  /\ Begin([NoOp EXCEPT !.name = "selectApplication", !.aid = aid])
  /\ CallSendCommand(SELECT_APPLICATION, Some(UIntLE3(aid)))
  /\ UNCHANGED << env, acr, application, currentApp, preferNoLe, session, hist >>

\* a selectApplication that records the application before looking at the
\* outcome of the command
SelectApplicationReturn_eager ==
  /\ pc = "cmdret"
  /\ op.name = "selectApplication"
  /\ currentApp' = Some(op.aid)
  /\ hist' = [hist EXCEPT !.ev2First = FALSE]
  /\ Finish(ret)
  /\ UNCHANGED << env, acr, application, preferNoLe, session, op, wire >>

\* selectApplication after sendCommand
SelectApplicationReturn ==
  /\ pc = "cmdret"
  /\ op.name = "selectApplication"
  /\ IF ret.ok
     THEN currentApp' = Some(op.aid) /\ hist' = [hist EXCEPT !.ev2First = FALSE]
     ELSE UNCHANGED << currentApp, hist >>
  /\ Finish(ret)
  /\ UNCHANGED << env, acr, application, preferNoLe, session, op, wire >>

\* getFileIDs, up to its sendCommand
GetFileIDs ==
  /\ Begin([NoOp EXCEPT !.name = "getFileIDs"])
  /\ CallSendCommand(GET_FILE_IDS, Null)
  /\ UNCHANGED << env, acr, application, currentApp, preferNoLe, session, hist >>

\* readData(fileNo, offset, length), up to its sendCommand
ReadData(fileNo, offset, length) ==
  /\ Begin([NoOp EXCEPT !.name = "readData"])
  /\ CallSendCommand(READ_DATA, Some(<< fileNo >> \o UIntLE3(offset) \o UIntLE3(length)))
  /\ UNCHANGED << env, acr, application, currentApp, preferNoLe, session, hist >>

\* getFileIDs / readData after sendCommand: the payload is the result
PayloadReturn ==
  /\ pc = "cmdret"
  /\ op.name \in {"getFileIDs", "readData"}
  /\ Finish(ret)
  /\ UNCHANGED << env, acr, application, currentApp, preferNoLe, session, op, wire, hist >>

\* changeKeySettings(newSettings), up to its sendCommand
ChangeKeySettings(newSettings) ==
  /\ Begin([NoOp EXCEPT !.name = "changeKeySettings"])
  /\ IF ~authenticated
     THEN FinishAs("changeKeySettings", Thrown("Authentication required for ChangeKeySettings"))
     ELSE CallSendCommand(CHANGE_KEY_SETTINGS, Some(<< newSettings >>))
  /\ UNCHANGED << env, acr, application, currentApp, preferNoLe, session, hist >>

\* changeKeySettings after sendCommand
ChangeKeySettingsReturn ==
  /\ pc = "cmdret"
  /\ op.name = "changeKeySettings"
  /\ Finish(ret)
  /\ UNCHANGED << env, acr, application, currentApp, preferNoLe, session, op, wire, hist >>

\* formatPICC(), up to its sendCommand
FormatPICC ==
  /\ Begin([NoOp EXCEPT !.name = "formatPICC"])
  /\ CallSendCommand(FORMAT_PICC, Null)
  /\ UNCHANGED << env, acr, application, currentApp, preferNoLe, session, hist >>

\* formatPICC after sendCommand
FormatPICCReturn ==
  /\ pc = "cmdret"
  /\ op.name = "formatPICC"
  /\ Finish(ret)
  /\ UNCHANGED << env, acr, application, currentApp, preferNoLe, session, op, wire, hist >>

----------------------------------------------------------------------------
(* getVersion and writeData: the operations that call transmitParsed       *)
(* themselves.  The ISO-DEP activation getVersion attempts on an ACR122U   *)
(* exchanges no APDU with the card and touches no field of DESFireCard.    *)

\* getVersion, sendNoData(ins) of trySequence(style): the APDU it transmits
SendNoData(style, ins) ==
  IF style = "noLe" THEN << 144, ins, 0, 0 >> ELSE << 144, ins, 0, 0, 0 >>

\* getVersion up to the first transmitParsed of trySequence('noLe')
GetVersion ==
  /\ Begin([NoOp EXCEPT !.name = "getVersion", !.style = "noLe"])
  /\ caller' = "trySequence"
  /\ attempts' = << [apdu |-> SendNoData("noLe", GET_VERSION), usesLe |-> FALSE] >>
  /\ acc' = << >>
  /\ ret' = NoRet
  /\ pc' = "version"
  /\ result' = NoResult
  /\ UNCHANGED << env, acr, application, currentApp, preferNoLe, session, hist >>

\* getVersion when trySequence throws e: lastErr = e, then the attempt to
\* select the PICC level through sendCommand
GetVersionCatch(e) ==
  /\ op' = [op EXCEPT !.lastErr = e]
  /\ CallSendCommand(SELECT_APPLICATION, Some(<< 0, 0, 0 >>))
  /\ UNCHANGED preferNoLe

\* getVersion: one transmitParsed of trySequence and what follows it up to
\* the next await
GetVersionTransmit ==
  /\ pc = "version"
  /\ \E o \in TransmitParsed(attempts[1].apdu, wire) :
       /\ wire' = wire \o o.log
       /\ IF ~o.ret.ok THEN GetVersionCatch(o.ret)
          ELSE IF ~(APDU_isSuccess(o.ret.sw1, o.ret.sw2)
                    \/ APDU_isAdditionalFrame(o.ret.sw1, o.ret.sw2))
          THEN GetVersionCatch(StatusError("GET_VERSION failed", o.ret))
          ELSE IF APDU_isAdditionalFrame(o.ret.sw1, o.ret.sw2)
          THEN /\ acc' = Concat(acc, o.ret.data)
               /\ attempts' = << [apdu |-> SendNoData(op.style, ADDITIONAL_FRAME),
                                  usesLe |-> op.style = "withLe"] >>
               /\ UNCHANGED << pc, op, caller, ret, result, preferNoLe >>
          ELSE /\ preferNoLe' = (op.style = "noLe")
               /\ Finish([NoRet EXCEPT !.data = Concat(acc, o.ret.data)])
               /\ UNCHANGED op
  /\ UNCHANGED << env, acr, application, currentApp, session, hist >>

\* getVersion after the sendCommand of its catch block, whose outcome is
\* ignored: the next style, or lastErr is thrown
GetVersionRetry ==
  /\ pc = "cmdret"
  /\ op.name = "getVersion"
  /\ IF op.style = "noLe"
     THEN /\ op' = [op EXCEPT !.style = "withLe"]
          /\ caller' = "trySequence"
          /\ attempts' = << [apdu |-> SendNoData("withLe", GET_VERSION), usesLe |-> TRUE] >>
          /\ acc' = << >>
          /\ ret' = NoRet
          /\ pc' = "version"
          /\ UNCHANGED result
     ELSE Finish(op.lastErr) /\ UNCHANGED op
  /\ UNCHANGED << env, acr, application, currentApp, preferNoLe, session, wire, hist >>

\* writeData: the payload budget of one frame
MAX_CHUNK == 40

\* a chunking that leaves one byte of the frame budget unused
Chunk_short(data, sent) ==
  SubSeq(data, sent + 1, sent + Min(Len(data) - sent, MAX_CHUNK - 1))

\* writeData: the chunk that starts at `sent`
Chunk(data, sent) == SubSeq(data, sent + 1, sent + Min(Len(data) - sent, MAX_CHUNK))

\* writeData(fileNo, offset, data) up to the transmitParsed of its lead frame
WriteData(fileNo, offset, data) ==
  /\ Begin([NoOp EXCEPT !.name = "writeData", !.data = data, !.step = 1])
  /\ caller' = "writeData"
  /\ attempts' = << [apdu |-> APDU_build(144, WRITE_DATA, 0, 0,
                                         Some(<< fileNo >> \o UIntLE3(offset)
                                              \o UIntLE3(Len(data)) \o Chunk(data, 0)),
                                         Some(0)),
                     usesLe |-> TRUE] >>
  /\ acc' = << >>
  /\ ret' = NoRet
  /\ pc' = "write"
  /\ result' = NoResult
  /\ UNCHANGED << env, acr, application, currentApp, preferNoLe, session, hist >>

\* writeData: one transmitParsed (lead frame when op.step = 1, else a
\* continuation frame) and what follows it up to the next await
WriteDataTransmit ==
  /\ pc = "write"
  /\ \E o \in TransmitParsed(attempts[1].apdu, wire) :
       LET chunk == Chunk(op.data, op.sent)
           sent == op.sent + Len(chunk)
       IN
       /\ wire' = wire \o o.log
       /\ IF ~o.ret.ok THEN Finish(o.ret) /\ UNCHANGED op
          ELSE IF op.step = 2 /\ attempts[1].usesLe /\ IsLengthError(o.ret.sw1, o.ret.sw2)
          THEN /\ attempts' = << [apdu |-> APDU_build(144, ADDITIONAL_FRAME, 0, 0,
                                                      Some(chunk), Null),
                                  usesLe |-> FALSE] >>
               /\ UNCHANGED << pc, op, caller, ret, acc, result >>
          ELSE IF ~(APDU_isSuccess(o.ret.sw1, o.ret.sw2)
                    \/ APDU_isAdditionalFrame(o.ret.sw1, o.ret.sw2))
          THEN Finish(StatusError("DESFire WriteData failed", o.ret)) /\ UNCHANGED op
          ELSE IF sent < Len(op.data)
          THEN /\ op' = [op EXCEPT !.sent = sent, !.step = 2]
               /\ attempts' = << [apdu |-> APDU_build(144, ADDITIONAL_FRAME, 0, 0,
                                                      Some(Chunk(op.data, sent)), Some(0)),
                                  usesLe |-> TRUE] >>
               /\ UNCHANGED << pc, caller, ret, acc, result >>
          ELSE /\ op' = [op EXCEPT !.sent = sent]
               /\ Finish(NoRet)
  /\ UNCHANGED << env, acr, application, currentApp, preferNoLe, session, hist >>

----------------------------------------------------------------------------
(* Crypto primitives.  A cipher is modelled by what it does to lengths     *)
(* (Node's ciphers with setAutoPadding(false) reject a partial block); the *)
(* bytes it produces are left abstract, one byte value per kind of buffer. *)

\* Buffer.slice(from, to), 0-based, end exclusive, clamped to the buffer
Slice(buf, from, to) == SubSeq(buf, Min(from, Len(buf)) + 1, Min(to, Len(buf)))

\* CryptoUtils.generateRandom(length)
generateRandom(length) == Fill(length, 161)

\* CryptoUtils.rotateLeft(buffer, 1)
rotateLeft(buffer) == [i \in 1..Len(buffer) |-> buffer[(i % Len(buffer)) + 1]]

\* CryptoUtils.aesEncrypt / aesDecrypt and des3Encrypt / des3Decrypt with
\* block size bs: a thrown error on a partial block, else as many bytes
blockCipher(bs, data, byte) ==
  IF Len(data) % bs # 0 THEN Thrown("wrong final block length")
  ELSE [NoRet EXCEPT !.data = Fill(Len(data), byte)]

aesEncrypt(data) == blockCipher(16, data, 238)
aesDecrypt(data) == blockCipher(16, data, 177)
des3Encrypt(data) == blockCipher(8, data, 238)
des3Decrypt(data) == blockCipher(8, data, 177)

\* CryptoUtils.crc32Buffer(data): 4 bytes standing for the checksum of data
crc32Buffer(data) == Fill(4, 204)

\* CryptoUtils.aesCMAC(key, data, 16): 16 bytes standing for the MAC of data
aesCMAC(data) == Fill(16, data[1])

\* CryptoUtils.deriveSessionKeyAESEnc / deriveSessionKeyAESMac
deriveSessionKeyAESEnc(rndA, rndB) ==
  Slice(rndA, 0, 4) \o Slice(rndB, 0, 4) \o Slice(rndA, 12, 16) \o Slice(rndB, 12, 16)
deriveSessionKeyAESMac(rndA, rndB) ==
  Slice(rndA, 4, 8) \o Slice(rndB, 4, 8) \o Slice(rndA, 8, 12) \o Slice(rndB, 8, 12)

\* CryptoUtils.deriveSessionKeyEV2Enc / deriveSessionKeyEV2Mac
deriveSessionKeyEV2Enc(rndA, rndB) ==
  aesCMAC(<< 165, 90, 0, 1, 0, 128 >> \o Slice(rndA, 0, 2) \o Slice(rndB, 0, 2)
          \o Slice(rndA, 13, 16) \o Slice(rndB, 13, 16))
deriveSessionKeyEV2Mac(rndA, rndB) ==
  aesCMAC(<< 90, 165, 0, 1, 0, 128 >> \o Slice(rndA, 0, 2) \o Slice(rndB, 0, 2)
          \o Slice(rndA, 13, 16) \o Slice(rndB, 13, 16))

----------------------------------------------------------------------------
(* Authentication handshakes.  The key manager is null, as in every        *)
(* construction `new DESFireCard(reader)`.  The history records            *)
(*   ev2First: an EV2First handshake succeeded and since then no           *)
(*             selectApplication succeeded, resetAuth was not called and   *)
(*             no authentication failed;                                   *)
(*   method, authApp: the last handshake that succeeded and the            *)
(*             application then selected, until resetAuth is called.       *)

AuthOps == {"authenticateAES", "authenticateEV2First", "authenticateEV2NonFirst",
            "authenticateDES"}

\* an authenticate method throws: the caller sees a failed authentication
AuthFails(r) ==
  /\ Finish(r)
  /\ hist' = [hist EXCEPT !.ev2First = FALSE]

\* the key lookup and length check shared by the three AES handshakes
KeyError(key) ==
  IF IsNull(key) THEN Thrown("No key provided and no KeyManager set")
  ELSE IF Len(Value(key)) # 16 THEN Thrown("AES key must be 16 bytes")
  ELSE NoRet

\* the first half of a handshake after the encrypted RndB arrived: the host
\* makes RndA, encrypts RndA || rol1(RndB) and sends it under ADDITIONAL_FRAME
SendChallenge(encRndB) ==
  LET rndB == aesDecrypt(encRndB)
      rndA == generateRandom(16)
      encChallenge == aesEncrypt(Concat(rndA, rotateLeft(rndB.data)))
  IN IF ~rndB.ok THEN AuthFails(rndB) /\ UNCHANGED op
     ELSE IF ~encChallenge.ok THEN AuthFails(encChallenge) /\ UNCHANGED op
     ELSE /\ op' = [op EXCEPT !.step = 2, !.rndA = rndA, !.rndB = rndB.data]
          /\ CallSendCommand(ADDITIONAL_FRAME, Some(encChallenge.data))
          /\ UNCHANGED hist

\* authenticateAES(keyNo, key), up to its first sendCommand
AuthenticateAES(keyNo, key) ==
  /\ Begin([NoOp EXCEPT !.name = "authenticateAES", !.keyNo = keyNo, !.step = 1])
  /\ IF ~KeyError(key).ok
     THEN FinishAs("authenticateAES", KeyError(key)) /\ UNCHANGED << session, hist >>
     ELSE /\ resetAuth
          /\ hist' = HistCleared
          /\ CallSendCommand(AUTHENTICATE_AES, Some(<< keyNo >>))
  /\ UNCHANGED << env, acr, application, currentApp, preferNoLe >>

\* authenticateAES between its two sendCommand calls
AuthenticateAESChallenge ==
  /\ pc = "cmdret"
  /\ op.name = "authenticateAES"
  /\ op.step = 1
  /\ IF ~ret.ok THEN AuthFails(ret) /\ UNCHANGED op
     ELSE IF Len(ret.data) # 16
     THEN AuthFails(Thrown("Expected 16 bytes RndB")) /\ UNCHANGED op
     ELSE SendChallenge(ret.data)
  /\ UNCHANGED << env, acr, application, currentApp, preferNoLe, session, wire >>

\* authenticateAES after its second sendCommand
AuthenticateAESVerify ==
  /\ pc = "cmdret"
  /\ op.name = "authenticateAES"
  /\ op.step = 2
  /\ \E match \in BOOLEAN :
       LET decryptedRndAPrime == aesDecrypt(ret.data) IN
       IF ~ret.ok THEN AuthFails(ret) /\ UNCHANGED session
       ELSE IF Len(ret.data) # 16
       THEN AuthFails(Thrown("Expected 16 bytes encrypted RndA'")) /\ UNCHANGED session
       ELSE IF ~decryptedRndAPrime.ok
       THEN AuthFails(decryptedRndAPrime) /\ UNCHANGED session
       ELSE IF ~(match /\ Len(decryptedRndAPrime.data) = Len(rotateLeft(op.rndA)))
       THEN AuthFails(Thrown("Authentication failed: RndA verification failed"))
            /\ UNCHANGED session
       ELSE /\ sessionKeyEnc' = Some(deriveSessionKeyAESEnc(op.rndA, op.rndB))
            /\ sessionKeyMac' = Some(deriveSessionKeyAESMac(op.rndA, op.rndB))
            /\ authenticated' = TRUE
            /\ authenticatedKeyNo' = Some(op.keyNo)
            /\ commandCounter' = 0
            /\ Finish(NoRet)
            /\ hist' = [hist EXCEPT !.method = op.name, !.authApp = currentApp]
            /\ UNCHANGED transactionId
  /\ UNCHANGED << env, acr, application, currentApp, preferNoLe, op, wire >>

\* a handshake that derives the MAC key but does not store it
Authenticated_noMacKey(keyNo, enc, mac) ==
  /\ sessionKeyEnc' = Some(enc)
  /\ UNCHANGED sessionKeyMac
  /\ authenticated' = TRUE
  /\ authenticatedKeyNo' = Some(keyNo)

\* what the three AES handshakes store once RndA' is verified
Authenticated(keyNo, enc, mac) ==
  /\ sessionKeyEnc' = Some(enc)
  /\ sessionKeyMac' = Some(mac)
  /\ authenticated' = TRUE
  /\ authenticatedKeyNo' = Some(keyNo)

\* authenticateEV2First(keyNo, key), up to its first sendCommand
AuthenticateEV2First(keyNo, key) ==
  /\ Begin([NoOp EXCEPT !.name = "authenticateEV2First", !.keyNo = keyNo, !.step = 1])
  /\ IF ~KeyError(key).ok
     THEN FinishAs("authenticateEV2First", KeyError(key)) /\ UNCHANGED << session, hist >>
     ELSE /\ resetAuth
          /\ hist' = HistCleared
          /\ CallSendCommand(AUTHENTICATE_EV2_FIRST, Some(<< keyNo, 0, 0 >>))
  /\ UNCHANGED << env, acr, application, currentApp, preferNoLe >>

\* authenticateEV2First between its two sendCommand calls
AuthenticateEV2FirstChallenge ==
  /\ pc = "cmdret"
  /\ op.name = "authenticateEV2First"
  /\ op.step = 1
  /\ IF ~ret.ok THEN AuthFails(ret) /\ UNCHANGED op
     ELSE IF Len(ret.data) < 16
     THEN AuthFails(Thrown("Expected at least 16 bytes")) /\ UNCHANGED op
     ELSE SendChallenge(Slice(ret.data, 0, 16))
  /\ UNCHANGED << env, acr, application, currentApp, preferNoLe, session, wire >>

\* authenticateEV2First after its second sendCommand
AuthenticateEV2FirstVerify ==
  /\ pc = "cmdret"
  /\ op.name = "authenticateEV2First"
  /\ op.step = 2
  /\ \E match \in BOOLEAN :
       LET decryptedRndAPrime == aesDecrypt(Slice(ret.data, 4, 20)) IN
       IF ~ret.ok THEN AuthFails(ret) /\ UNCHANGED session
       ELSE IF Len(ret.data) < 4
       THEN AuthFails(Thrown("Expected at least 4 bytes TI + encrypted data"))
            /\ UNCHANGED session
       ELSE /\ transactionId' = Some(Slice(ret.data, 0, 4))
            /\ IF ~decryptedRndAPrime.ok
               THEN /\ AuthFails(decryptedRndAPrime)
                    /\ UNCHANGED << authenticated, authenticatedKeyNo, sessionKeyEnc,
                                    sessionKeyMac, commandCounter >>
               ELSE IF ~(match /\ Len(decryptedRndAPrime.data) = Len(rotateLeft(op.rndA)))
               THEN /\ AuthFails(Thrown("Authentication failed: RndA verification failed"))
                    /\ UNCHANGED << authenticated, authenticatedKeyNo, sessionKeyEnc,
                                    sessionKeyMac, commandCounter >>
               ELSE /\ Authenticated(op.keyNo, deriveSessionKeyEV2Enc(op.rndA, op.rndB),
                                     deriveSessionKeyEV2Mac(op.rndA, op.rndB))
                    /\ commandCounter' = 0
                    /\ Finish(NoRet)
                    /\ hist' = [ev2First |-> TRUE, method |-> op.name,
                                authApp |-> currentApp]
  /\ UNCHANGED << env, acr, application, currentApp, preferNoLe, op, wire >>

\* authenticateEV2NonFirst(keyNo, key), up to its first sendCommand
AuthenticateEV2NonFirst(keyNo, key) ==
  /\ Begin([NoOp EXCEPT !.name = "authenticateEV2NonFirst", !.keyNo = keyNo, !.step = 1])
  /\ IF IsNull(transactionId)
     THEN FinishAs("authenticateEV2NonFirst", Thrown("EV2 Non-First requires a previous EV2 First authentication"))
     ELSE IF ~KeyError(key).ok
     THEN FinishAs("authenticateEV2NonFirst", KeyError(key))
     ELSE CallSendCommand(AUTHENTICATE_EV2_NON_FIRST, Some(<< keyNo, 0, 0 >>))
  /\ UNCHANGED << env, acr, application, currentApp, preferNoLe, session, hist >>

\* authenticateEV2NonFirst between its two sendCommand calls
AuthenticateEV2NonFirstChallenge ==
  /\ pc = "cmdret"
  /\ op.name = "authenticateEV2NonFirst"
  /\ op.step = 1
  /\ IF ~ret.ok THEN AuthFails(ret) /\ UNCHANGED op
     ELSE SendChallenge(Slice(ret.data, 0, 16))
  /\ UNCHANGED << env, acr, application, currentApp, preferNoLe, session, wire >>

\* authenticateEV2NonFirst after its second sendCommand
AuthenticateEV2NonFirstVerify ==
  /\ pc = "cmdret"
  /\ op.name = "authenticateEV2NonFirst"
  /\ op.step = 2
  /\ \E match \in BOOLEAN :
       LET decryptedRndAPrime == aesDecrypt(Slice(ret.data, 0, 16)) IN
       IF ~ret.ok THEN AuthFails(ret) /\ UNCHANGED session
       ELSE IF ~decryptedRndAPrime.ok
       THEN AuthFails(decryptedRndAPrime) /\ UNCHANGED session
       ELSE IF ~(match /\ Len(decryptedRndAPrime.data) = Len(rotateLeft(op.rndA)))
       THEN AuthFails(Thrown("Authentication failed: RndA verification failed"))
            /\ UNCHANGED session
       ELSE /\ Authenticated(op.keyNo, deriveSessionKeyEV2Enc(op.rndA, op.rndB),
                             deriveSessionKeyEV2Mac(op.rndA, op.rndB))
            /\ Finish(NoRet)
            /\ hist' = [hist EXCEPT !.method = op.name, !.authApp = currentApp]
            /\ UNCHANGED << transactionId, commandCounter >>
  /\ UNCHANGED << env, acr, application, currentApp, preferNoLe, op, wire >>

\* authenticateDES(keyNo, key), up to its first tryTransmitAttempts; a key
\* that is not 16 or 24 bytes long is replaced by the factory key
AuthenticateDES(keyNo, key) ==
  /\ Begin([NoOp EXCEPT !.name = "authenticateDES", !.keyNo = keyNo, !.step = 1])
  /\ caller' = "authenticateDES"
  /\ attempts' = LeAttempts(AUTHENTICATE, Some(<< keyNo >>))
  /\ pc' = "try"
  /\ result' = NoResult
  /\ UNCHANGED << env, acr, application, currentApp, preferNoLe, session, ret, acc, hist >>

\* authenticateDES between its two tryTransmitAttempts calls
AuthenticateDESChallenge ==
  /\ pc = "parsed"
  /\ caller = "authenticateDES"
  /\ op.step = 1
  /\ LET rndB == des3Decrypt(Slice(ret.data, 0, 8))
         rndA == generateRandom(8)
         encChallenge == des3Encrypt(Concat(rndA, rotateLeft(rndB.data)))
     IN
     IF ~ret.ok THEN AuthFails(ret) /\ UNCHANGED op
     ELSE IF ~APDU_isAdditionalFrame(ret.sw1, ret.sw2) /\ ~APDU_isSuccess(ret.sw1, ret.sw2)
     THEN AuthFails(StatusError("DESFire Authenticate (DES) failed", ret)) /\ UNCHANGED op
     ELSE IF Len(ret.data) < 8
     THEN AuthFails(Thrown("Invalid Authenticate response: encRndB too short"))
          /\ UNCHANGED op
     ELSE /\ op' = [op EXCEPT !.step = 2, !.rndA = rndA, !.rndB = rndB.data]
          /\ attempts' = LeAttempts(ADDITIONAL_FRAME, Some(encChallenge.data))
          /\ pc' = "try"
          /\ UNCHANGED << caller, ret, acc, result, hist >>
  /\ UNCHANGED << env, acr, application, currentApp, preferNoLe, session, wire >>

\* authenticateDES after its second tryTransmitAttempts
AuthenticateDESVerify ==
  /\ pc = "parsed"
  /\ caller = "authenticateDES"
  /\ op.step = 2
  /\ \E match \in BOOLEAN :
       LET rndAPrime == des3Decrypt(Slice(ret.data, 0, 8)) IN
       IF ~ret.ok THEN AuthFails(ret) /\ UNCHANGED session
       ELSE IF ~APDU_isSuccess(ret.sw1, ret.sw2) /\ ~APDU_isAdditionalFrame(ret.sw1, ret.sw2)
       THEN AuthFails(StatusError("DESFire Authenticate (DES) step 2 failed", ret))
            /\ UNCHANGED session
       ELSE IF Len(ret.data) < 8
       THEN AuthFails(Thrown("Invalid Authenticate response: encRndA' too short"))
            /\ UNCHANGED session
       ELSE IF ~(match /\ Len(rndAPrime.data) = Len(rotateLeft(op.rndA)))
       THEN AuthFails(Thrown("Authentication (DES) failed: RndA verification failed"))
            /\ UNCHANGED session
       ELSE /\ authenticated' = TRUE
            /\ authenticatedKeyNo' = Some(op.keyNo)
            /\ Finish(NoRet)
            /\ hist' = [hist EXCEPT !.method = op.name, !.authApp = currentApp]
            /\ UNCHANGED << sessionKeyEnc, sessionKeyMac, transactionId,
                            commandCounter >>
  /\ UNCHANGED << env, acr, application, currentApp, preferNoLe, op, wire >>

----------------------------------------------------------------------------
(* Key management operations *)

\* changeKey(keyNo, newKey), up to its sendCommand
ChangeKey(keyNo, newKey) ==
  /\ Begin([NoOp EXCEPT !.name = "changeKey", !.keyNo = keyNo, !.data = newKey])
  /\ IF ~authenticated
     THEN FinishAs("changeKey", Thrown("Authentication required for ChangeKey"))
     ELSE IF Len(newKey) # 16
     THEN FinishAs("changeKey", Thrown("AES-128 keys must be 16 bytes"))
     ELSE CallSendCommand(CHANGE_KEY, Some(<< keyNo >> \o newKey \o << 0 >>))
  /\ UNCHANGED << env, acr, application, currentApp, preferNoLe, session, hist >>

\* changeKeyEV2(keyNo, newKey, newKeyVersion), up to its sendCommand
ChangeKeyEV2(keyNo, newKey, newKeyVersion) ==
  LET keyData == newKey \o << newKeyVersion >>
      crc == crc32Buffer(<< CHANGE_KEY_EV2, keyNo >> \o keyData)
      encryptedData == aesEncrypt(keyData \o crc)
  IN
  /\ Begin([NoOp EXCEPT !.name = "changeKeyEV2", !.keyNo = keyNo, !.data = newKey])
  /\ IF ~authenticated \/ IsNull(sessionKeyEnc)
     THEN FinishAs("changeKeyEV2", Thrown("EV2 authentication required for ChangeKeyEV2"))
     ELSE IF Len(newKey) # 16
     THEN FinishAs("changeKeyEV2", Thrown("AES-128 keys must be 16 bytes"))
     ELSE IF ~encryptedData.ok
     THEN FinishAs("changeKeyEV2", encryptedData)
     ELSE CallSendCommand(CHANGE_KEY_EV2, Some(<< keyNo >> \o encryptedData.data))
  /\ UNCHANGED << env, acr, application, currentApp, preferNoLe, session, hist >>

\* initializeKeySet(keySetNo, keyType), up to its sendCommand
InitializeKeySet(keySetNo, keyType) ==
  /\ Begin([NoOp EXCEPT !.name = "initializeKeySet"])
  /\ IF ~authenticated
     THEN FinishAs("initializeKeySet", Thrown("Authentication required for InitializeKeySet"))
     ELSE CallSendCommand(INITIALIZE_KEY_SET, Some(<< keySetNo, keyType >>))
  /\ UNCHANGED << env, acr, application, currentApp, preferNoLe, session, hist >>

\* rollKeySet(keySetNo), up to its sendCommand
RollKeySet(keySetNo) ==
  /\ Begin([NoOp EXCEPT !.name = "rollKeySet"])
  /\ IF ~authenticated
     THEN FinishAs("rollKeySet", Thrown("Authentication required for RollKeySet"))
     ELSE CallSendCommand(ROLL_KEY_SET, Some(<< keySetNo >>))
  /\ UNCHANGED << env, acr, application, currentApp, preferNoLe, session, hist >>

\* a finalizeKeySet that does not test the session
FinalizeKeySet_unguarded ==
  /\ Begin([NoOp EXCEPT !.name = "finalizeKeySet"])
  /\ CallSendCommand(FINALIZE_KEY_SET, Null)
  /\ UNCHANGED << env, acr, application, currentApp, preferNoLe, session, hist >>

\* finalizeKeySet(), up to its sendCommand
FinalizeKeySet ==
  /\ Begin([NoOp EXCEPT !.name = "finalizeKeySet"])
  /\ IF ~authenticated
     THEN FinishAs("finalizeKeySet", Thrown("Authentication required for FinalizeKeySet"))
     ELSE CallSendCommand(FINALIZE_KEY_SET, Null)
  /\ UNCHANGED << env, acr, application, currentApp, preferNoLe, session, hist >>

\* changeKey, changeKeyEV2 and the key set operations after sendCommand
KeyOpReturn ==
  /\ pc = "cmdret"
  /\ op.name \in {"changeKey", "changeKeyEV2", "initializeKeySet", "rollKeySet",
                  "finalizeKeySet"}
  /\ Finish(ret)
  /\ UNCHANGED << env, acr, application, currentApp, preferNoLe, session, op, wire, hist >>

----------------------------------------------------------------------------
(* The library driven by any caller, one operation at a time *)

\* the caller receives the result; the library waits for the next call
Return ==
  /\ pc = "done"
  /\ pc' = "idle"
  /\ op' = NoOp
  /\ wire' = << >>
  /\ result' = NoResult
  /\ UNCHANGED << env, acr, application, currentApp, preferNoLe, session, control, hist >>

----------------------------------------------------------------------------
(* The web server (server/index.ts): its handlers are async functions that  *)
(* share one reader.  Each creates its own DESFireCard and awaits one       *)
(* library call after the other; a library call puts one or more frames on  *)
(* the reader, as modelled above, and either returns or throws.  Handlers   *)
(* run interleaved at every await.                                          *)

Handlers == 1..MaxHandlers

\* the files of the payment application
FILE_BALANCE == 0
FILE_TX_HISTORY == 1
FILE_METADATA == 2
\* the bytes of one transaction record in the history file
TX_RECORD_SIZE == 24
\* the card-detected handler calls getVersion at most this often
VersionAttempts == 3

\* the `amount` of a payment request, and the value the balance file holds
\* when the server starts
Amounts == {1}
OpeningBalance == 1

\* a handler slot in which no handler runs; `log` keeps the library calls of
\* the handler that ran last.  A payment handler has the number of its
\* request (id), its amount, and its locals `before` and `count`.
IdleHandler == [route |-> "none", at |-> "idle", attempt |-> 0, sent |-> 0, log |-> << >>,
                id |-> 0, amount |-> 0, before |-> 0, count |-> 0]

\* the card of the payment application as the server finds it: the value of
\* the balance file and the value operations not yet committed, the record
\* count the metadata file holds, and the history file as the offsets
\* written, each with the request whose record lies there
CardStart == [balance |-> OpeningBalance, pending |-> 0, count |-> 0, history |-> {}]

\* the server after start: lastCardInfo = { present: false }, no request
\* received; onReader tells whether a card lies on the reader, and `paid`
\* lists the payment requests answered { ok: true }
ServerStart == [present |-> FALSE, onReader |-> FALSE,
                handler |-> [h \in Handlers |-> IdleHandler],
                card |-> CardStart, requests |-> 0, paid |-> << >>]

\* the library call a handler awaits at `at`: its command and file number
CallAt(route, at) ==
  CASE at = "select" -> [ins |-> SELECT_APPLICATION, fileNo |-> Null]
    [] at = "auth" -> [ins |-> AUTHENTICATE, fileNo |-> Null]
    [] at = "getValue" -> [ins |-> GET_VALUE, fileNo |-> Some(FILE_BALANCE)]
    [] at = "value" -> [ins |-> IF route = "credit" THEN CREDIT ELSE DEBIT,
                        fileNo |-> Some(FILE_BALANCE)]
    [] at = "commit" -> [ins |-> COMMIT_TRANSACTION, fileNo |-> Null]
    [] at = "readCount" -> [ins |-> READ_DATA, fileNo |-> Some(FILE_METADATA)]
    [] at = "writeRecord" -> [ins |-> WRITE_DATA, fileNo |-> Some(FILE_TX_HISTORY)]
    [] at = "writeCount" -> [ins |-> WRITE_DATA, fileNo |-> Some(FILE_METADATA)]
    [] at = "version" -> [ins |-> GET_VERSION, fileNo |-> Null]
    [] at = "appIds" -> [ins |-> GET_APPLICATION_IDS, fileNo |-> Null]
    [] at = "freeMemory" -> [ins |-> GET_FREE_MEMORY, fileNo |-> Null]

\* where a handler continues when the call at `at` returned or threw; "end"
\* when it responds.  getValue's failure is swallowed by the credit handler
\* only, readRecordCount swallows its own, and so does the card-detected
\* handler for getApplicationIDs and getFreeMemory.
After(route, at, threw) ==
  CASE at = "select" -> IF threw THEN "end" ELSE "auth"
    [] at = "auth" -> IF threw THEN "end" ELSE "getValue"
    [] at = "getValue" -> IF threw /\ route = "debit" THEN "end" ELSE "value"
    [] at = "value" -> IF threw THEN "end" ELSE "commit"
    [] at = "commit" -> IF threw THEN "end" ELSE "readCount"
    [] at = "readCount" -> "writeRecord"
    [] at = "writeRecord" -> IF threw THEN "end" ELSE "writeCount"
    [] at = "writeCount" -> "end"
    [] at = "version" -> IF threw THEN "end" ELSE "appIds"
    [] at = "appIds" -> "freeMemory"
    [] at = "freeMemory" -> "end"

\* the locals of a payment handler after the call at H.at returned or threw:
\* `before` is what getValue returned (0 when the credit handler swallowed
\* its failure), `count` what readRecordCount returned (0 when readData
\* threw or returned fewer than 4 bytes)
Locals(H, card, threw, short) ==
  IF H.at = "getValue"
  THEN [H EXCEPT !.before = IF threw THEN 0 ELSE card.balance]
  ELSE IF H.at = "readCount"
  THEN [H EXCEPT !.count = IF threw \/ short THEN 0 ELSE card.count]
  ELSE H

\* the card after it answered the call at H.at with success: a value
\* operation is held until CommitTransaction, writeData(FILE_TX_HISTORY,
\* count * TX_RECORD_SIZE, rec) puts the record at that offset, and
\* writeRecordCount(count + 1) stores the count
Stored(card, H) ==
  IF H.at = "value"
  THEN [card EXCEPT !.pending = card.pending
                                  + (IF H.route = "credit" THEN H.amount ELSE 0 - H.amount)]
  ELSE IF H.at = "commit"
  THEN [card EXCEPT !.balance = card.balance + card.pending, !.pending = 0]
  ELSE IF H.at = "writeRecord"
  THEN [card EXCEPT !.history =
          {r \in card.history : r.offset # H.count * TX_RECORD_SIZE}
          \cup {[offset |-> H.count * TX_RECORD_SIZE, id |-> H.id]}]
  ELSE IF H.at = "writeCount"
  THEN [card EXCEPT !.count = H.count + 1]
  ELSE card

\* POST /api/payment/credit and /api/payment/debit up to the first await of
\* withPaymentCard; without a card present the request is answered at once
StartPayment(h, route) ==
  /\ server.handler[h].at = "idle"
  /\ server.present
  /\ server.requests < MaxPayments
  /\ \E amount \in Amounts :
       server' = [server EXCEPT
                    !.requests = server.requests + 1,
                    !.handler[h] = [IdleHandler EXCEPT !.route = route, !.at = "select",
                                                       !.id = server.requests + 1,
                                                       !.amount = amount]]
  /\ UNCHANGED << env, acr, call, currentApp, preferNoLe, session, pc, op, control,
                  wire, result, hist >>

\* a card is placed on the reader: readerManager.on('card-detected') up to
\* its first getVersion
CardDetected(h) ==
  /\ server.handler[h].at = "idle"
  /\ ~server.onReader
  /\ server' = [server EXCEPT
                  !.onReader = TRUE,
                  !.handler[h] = [IdleHandler EXCEPT !.route = "cardDetected",
                                                     !.at = "version", !.attempt = 1]]
  /\ UNCHANGED << env, acr, call, currentApp, preferNoLe, session, pc, op, control,
                  wire, result, hist >>

\* the card is taken off the reader: readerManager.on('card-removed')
CardRemoved ==
  /\ server.onReader
  /\ server' = [server EXCEPT !.onReader = FALSE, !.present = FALSE]
  /\ UNCHANGED << env, acr, call, currentApp, preferNoLe, session, pc, op, control,
                  wire, result, hist >>

\* the library call handler h awaits puts its next frame on the reader and
\* the answer arrives: the call goes on with another frame (a continuation
\* request, the other Le form, the second frame of a handshake, the next
\* chunk), returns, or throws, and in the last two cases the handler runs on
\* to its next await.  Without a card on the reader every call throws.
\* `other` decides what the answer's bytes decide: whether getVersion's error
\* is one the card-detected handler retries, whether readData returned fewer
\* than 4 bytes.
HandlerStep(h) ==
  LET H == server.handler[h] IN
  /\ H.at # "idle"
  /\ \E outcome \in {"more", "returns", "throws"}, other \in BOOLEAN :
       LET log == IF H.sent = 0 THEN Append(H.log, CallAt(H.route, H.at)) ELSE H.log
           threw == outcome = "throws"
           L == Locals(H, server.card, threw, other)
           next == IF H.at = "version" /\ threw
                   THEN IF other /\ H.attempt < VersionAttempts THEN "version" ELSE "end"
                   ELSE IF H.at = "getValue" /\ H.route = "debit"
                           /\ ~threw /\ L.before < H.amount
                   THEN "end"
                   ELSE After(H.route, H.at, threw)
           card == IF threw THEN server.card ELSE Stored(server.card, H)
           paid == IF H.at = "writeCount" /\ ~threw
                   THEN Append(server.paid, H.id) ELSE server.paid
       IN
       /\ outcome = "more" => H.sent + 1 < ServerFrames
       /\ outcome # "throws" => server.onReader
       /\ (outcome = "returns" /\ H.at = "auth") => H.sent >= 1
       /\ server' =
            IF outcome = "more"
            THEN [server EXCEPT !.handler[h] = [H EXCEPT !.sent = H.sent + 1, !.log = log]]
            ELSE IF next = "end"
            THEN [server EXCEPT
                    !.present = IF H.route = "cardDetected" THEN TRUE ELSE server.present,
                    !.handler[h] = [IdleHandler EXCEPT !.route = H.route, !.log = log,
                                                       !.attempt = H.attempt],
                    !.card = card, !.paid = paid]
            ELSE [server EXCEPT
                    !.handler[h] =
                      [L EXCEPT !.at = next, !.sent = 0, !.log = log,
                                !.attempt = IF H.at = "version" /\ next = "version"
                                            THEN H.attempt + 1 ELSE H.attempt],
                    !.card = card]
  /\ UNCHANGED << env, acr, call, currentApp, preferNoLe, session, pc, op, control,
                  wire, result, hist >>

\* no codec or helper function is being evaluated
NoCall == [fn |-> "none", args |-> << >>, out |-> << >>]

\* a DESFireCard as constructed, in an application that has done nothing yet
Constructed ==
  /\ call = NoCall
  /\ server = ServerStart
  /\ currentApp = Null
  /\ preferNoLe = TRUE
  /\ authenticated = FALSE
  /\ authenticatedKeyNo = Null
  /\ sessionKeyEnc = Null
  /\ sessionKeyMac = Null
  /\ transactionId = Null
  /\ commandCounter = 0
  /\ pc = "idle"
  /\ op = NoOp
  /\ caller = "none"
  /\ attempts = << >>
  /\ ret = NoRet
  /\ acc = << >>
  /\ wire = << >>
  /\ result = NoResult
  /\ hist = HistCleared

\* the session explored: every operation, on a reader whose transport works
\* and that accepts the first Le form
Init ==
  /\ env = [continuations |-> SessionContinuations, faults |-> 0,
            errors |-> {SW_AUTHENTICATION_ERROR}, short |-> {<< >>}]
  /\ acr = FALSE
  /\ Constructed

Commands ==
  \/ \E aid \in Apps : SelectApplication(aid)
  \/ SelectApplicationReturn
  \/ GetFileIDs
  \/ ReadData(1, 0, 16)
  \/ PayloadReturn
  \/ TryTransmitAttempts
  \/ SendCommandReturn
  \/ GetAdditionalFrameReturn
  \/ Return

Next ==
  \/ Commands
  \/ ResetAuth
  \/ ChangeKeySettings(15)
  \/ ChangeKeySettingsReturn
  \/ FormatPICC
  \/ FormatPICCReturn
  \/ \E newKey \in NewKeys : ChangeKey(0, newKey)
  \/ \E newKey \in NewKeys : ChangeKeyEV2(0, newKey, 0)
  \/ InitializeKeySet(1, 128)
  \/ RollKeySet(1)
  \/ FinalizeKeySet
  \/ KeyOpReturn
  \/ \E keyNo \in KeyNos, key \in KeyArgs : AuthenticateAES(keyNo, key)
  \/ AuthenticateAESChallenge
  \/ AuthenticateAESVerify
  \/ \E keyNo \in KeyNos, key \in KeyArgs : AuthenticateEV2First(keyNo, key)
  \/ AuthenticateEV2FirstChallenge
  \/ AuthenticateEV2FirstVerify
  \/ \E keyNo \in KeyNos, key \in KeyArgs : AuthenticateEV2NonFirst(keyNo, key)
  \/ AuthenticateEV2NonFirstChallenge
  \/ AuthenticateEV2NonFirstVerify
  \/ \E keyNo \in KeyNos, key \in KeyArgs : AuthenticateDES(keyNo, key)
  \/ AuthenticateDESChallenge
  \/ AuthenticateDESVerify

Spec == Init /\ [][Next]_vars

----------------------------------------------------------------------------
(* The codec and the helper functions, called on their own *)

\* the `data` argument of APDU.build: absent, or a Buffer of 0..255 bytes
BuildData == {Null} \cup {Some(Data(n)) : n \in 0..255}
\* the `le` argument: absent, 0 or another byte
BuildLe == {Null, Some(0), Some(255)}

\* Number << 4 and Number | Number, on numbers from 0 to far below 2^27, for
\* which the 32-bit shift does not overflow
ShiftLeft4(a) == a * 16
RECURSIVE BitOr(_, _)
BitOr(a, b) ==
  IF a = 0 THEN b
  ELSE IF b = 0 THEN a
  ELSE (IF a % 2 = 1 \/ b % 2 = 1 THEN 1 ELSE 0) + 2 * BitOr(a \div 2, b \div 2)

\* createAccessRights with the two bytes in the other order
createAccessRights_swapped(read, write, readWrite, change) ==
  LET byte1 == BitOr(ShiftLeft4(readWrite), change)
      byte2 == BitOr(ShiftLeft4(read), write)
  IN << byte1 % 256, byte2 % 256 >>

\* createAccessRights(read, write, readWrite, change); Buffer.from keeps the
\* low 8 bits of each number
createAccessRights(read, write, readWrite, change) ==
  LET byte1 == BitOr(ShiftLeft4(readWrite), change)
      byte2 == BitOr(ShiftLeft4(read), write)
  IN << byte2 % 256, byte1 % 256 >>

\* the key numbers an access right can name, 0xE (free) and 0xF (deny)
Nibbles == 0..15

\* a function is called with `args` and returns `out`
Evaluate(fn, args, out) ==
  /\ call = NoCall
  /\ call' = [fn |-> fn, args |-> args, out |-> out]
  /\ UNCHANGED << env, acr, server, currentApp, preferNoLe, session, pc, op, control,
                  wire, result, hist >>

\* APDU.build(0x90, ins, 0, 0, data, le)
Build ==
  /\ call = NoCall
  /\ \E data \in BuildData, le \in BuildLe :
       Evaluate("APDU.build", << 144, READ_DATA, 0, 0, data, le >>,
                APDU_build(144, READ_DATA, 0, 0, data, le))

\* APDU.buildDESFire(cmd, data) and APDU.buildDESFire(cmd, data, le)
BuildDESFire ==
  /\ call = NoCall
  /\ \E data \in BuildData, le \in BuildLe :
       Evaluate("APDU.buildDESFire", << READ_DATA, data, le >>,
                APDU_buildDESFire(READ_DATA, data, le))

\* createAccessRights(read, write, readWrite, change)
CreateAccessRights ==
  /\ call = NoCall
  /\ \E read \in Nibbles, write \in Nibbles, readWrite \in Nibbles, change \in Nibbles :
       Evaluate("createAccessRights", << read, write, readWrite, change >>,
                createAccessRights(read, write, readWrite, change))

\* the function returns to its caller
CallReturn ==
  /\ call # NoCall
  /\ call' = NoCall
  /\ UNCHANGED << env, acr, server, currentApp, preferNoLe, session, pc, op, control,
                  wire, result, hist >>

CodecInit ==
  /\ env = [continuations |-> 0, faults |-> 0, errors |-> {}, short |-> {<< >>}]
  /\ acr = FALSE
  /\ Constructed

CodecNext ==
  \/ Build
  \/ BuildDESFire
  \/ CreateAccessRights
  \/ CallReturn

CodecSpec == CodecInit /\ [][CodecNext]_vars

\* the web server explored: card events and payment requests, handled
\* concurrently
ServerInit ==
  /\ env = [continuations |-> 0, faults |-> 0, errors |-> {}, short |-> {<< >>}]
  /\ acr = FALSE
  /\ Constructed

ServerNext ==
  \/ \E h \in Handlers : CardDetected(h)
  \/ CardRemoved
  \/ \E h \in Handlers, route \in {"credit", "debit"} : StartPayment(h, route)
  \/ \E h \in Handlers : HandlerStep(h)

ServerSpec == ServerInit /\ [][ServerNext]_vars

\* the transmit engine explored: plain commands on a reader of either kind,
\* whose transport may fail
EngineInit ==
  /\ env = [continuations |-> MaxContinuations, faults |-> MaxFaults,
            errors |-> {SW_LENGTH_ERROR, SW_AUTHENTICATION_ERROR}, short |-> {<< >>}]
  /\ acr \in BOOLEAN
  /\ Constructed

EngineNext == Commands

EngineSpec == EngineInit /\ [][EngineNext]_vars

\* the framing explored: getVersion, writeData and a plain command on a
\* reader whose transport works, with a card that may answer length errors
FrameInit ==
  /\ env = [continuations |-> FrameContinuations, faults |-> 0,
            errors |-> {SW_LENGTH_ERROR, SW_AUTHENTICATION_ERROR}, short |-> {<< >>}]
  /\ acr = FALSE
  /\ Constructed

FrameNext ==
  \/ GetFileIDs
  \/ PayloadReturn
  \/ TryTransmitAttempts
  \/ SendCommandReturn
  \/ GetAdditionalFrameReturn
  \/ GetVersion
  \/ GetVersionTransmit
  \/ GetVersionRetry
  \/ \E n \in WriteLens : WriteData(1, 0, Data(n))
  \/ WriteDataTransmit
  \/ Return

FrameSpec == FrameInit /\ [][FrameNext]_vars

\* the transport fallbacks explored: plain commands on a reader of either
\* kind whose transport fails repeatedly
TransportInit ==
  /\ env = [continuations |-> SessionContinuations, faults |-> TransportFaults,
            errors |-> {SW_LENGTH_ERROR}, short |-> {<< >>, << 145 >>}]
  /\ acr \in BOOLEAN
  /\ Constructed

TransportNext ==
  \/ GetFileIDs
  \/ ReadData(1, 0, 16)
  \/ PayloadReturn
  \/ TryTransmitAttempts
  \/ SendCommandReturn
  \/ GetAdditionalFrameReturn
  \/ Return

TransportSpec == TransportInit /\ [][TransportNext]_vars

\* getVersion between selections: the applications a caller selects, and a
\* card that may reject the first form of GET_VERSION
VersionInit ==
  /\ env = [continuations |-> SessionContinuations, faults |-> 0,
            errors |-> {SW_LENGTH_ERROR}, short |-> {<< >>}]
  /\ acr = FALSE
  /\ Constructed

VersionNext ==
  \/ \E aid \in Apps : SelectApplication(aid)
  \/ SelectApplicationReturn
  \/ TryTransmitAttempts
  \/ SendCommandReturn
  \/ GetAdditionalFrameReturn
  \/ GetVersion
  \/ GetVersionTransmit
  \/ GetVersionRetry
  \/ Return

VersionSpec == VersionInit /\ [][VersionNext]_vars

----------------------------------------------------------------------------
(* Properties *)

Between == pc \in {"idle", "done"}
Running == pc \notin {"idle", "done"}
HasKeys == ~IsNull(sessionKeyEnc) /\ ~IsNull(sessionKeyMac)
NoKeys == IsNull(sessionKeyEnc) /\ IsNull(sessionKeyMac)

\* the status word <<SW1, SW2>> of an answered transmission
StatusOf(e) == << e.rx[Len(e.rx) - 1], e.rx[Len(e.rx)] >>
PayloadOf(e) == SubSeq(e.rx, 1, Len(e.rx) - 2)
InsOf(e) == e.apdu[2]

\* whether a command APDU ends in an Le byte
CarriesLe(apdu) == Len(apdu) = 5 \/ (Len(apdu) > 5 /\ Len(apdu) = apdu[5] + 6)

RECURSIVE JoinPayloads(_)
JoinPayloads(w) == IF w = << >> THEN << >> ELSE PayloadOf(Head(w)) \o JoinPayloads(Tail(w))

\* C1: after a successful authentication in a selected application, a
\* successful selectApplication leaves the session not authenticated, with no
\* key number, no session keys and no transaction identifier.
C1_SelectClearsSession ==
  (pc = "done" /\ result.name = "selectApplication" /\ result.ok /\ ~IsNull(hist.authApp))
    => (~authenticated /\ IsNull(authenticatedKeyNo) /\ NoKeys /\ IsNull(transactionId))

\* C2: when a handshake that has put a frame on the wire fails, the session is
\* not authenticated and holds no session keys on return.
C2_FailedAuthClearsSession ==
  (pc = "done" /\ result.name \in AuthOps /\ ~result.ok /\ wire # << >>)
    => (~authenticated /\ NoKeys)

\* C3: from the first frame of a handshake until RndA' is verified the session
\* is not authenticated and holds no session keys.
C3_HandshakeRunsUnauthenticated ==
  (Running /\ op.name \in AuthOps /\ wire # << >>) => (~authenticated /\ NoKeys)

\* C4 (as stated): between operations both session keys are present if and
\* only if authenticated is true.
C4_KeysIffAuthenticated == Between => (HasKeys <=> authenticated)

\* C4 (amended): between operations the two session keys are present or absent
\* together, present only while authenticated is true, and authenticated is
\* true without them only after a legacy DES handshake.
C4_KeysImplyAuthenticated ==
  Between => /\ IsNull(sessionKeyEnc) <=> IsNull(sessionKeyMac)
             /\ HasKeys => authenticated
             /\ (authenticated /\ NoKeys) => hist.method = "authenticateDES"

\* an AES handshake has just succeeded: the session holds both keys
C4_Witness ==
  pc = "done" /\ result.name = "authenticateAES" /\ result.ok /\ authenticated /\ HasKeys

\* C5: transactionId is set only if an EV2First handshake has succeeded since
\* the session was last cleared.
C5_TransactionIdOnlyAfterEV2First == ~IsNull(transactionId) => hist.ev2First

\* C6: an EV2NonFirst handshake puts a frame on the wire only if an EV2First
\* handshake has succeeded in the selected application since the session was
\* last cleared.
C6_NonFirstNeedsEV2First ==
  (Running /\ op.name = "authenticateEV2NonFirst" /\ wire # << >>) => hist.ev2First

\* C7: in the AES and EV2 handshakes, the transmission that follows the
\* card's encrypted RndB with status 91 AF is ADDITIONAL_FRAME carrying the
\* 32-byte encrypted challenge.
C7_ChallengeFollowsRndB ==
  op.name \in {"authenticateAES", "authenticateEV2First", "authenticateEV2NonFirst"}
    => \A i \in 1..(Len(wire) - 1) :
         ( /\ InsOf(wire[i]) \in {AUTHENTICATE_AES, AUTHENTICATE_EV2_FIRST,
                                  AUTHENTICATE_EV2_NON_FIRST}
           /\ Len(wire[i].rx) = 18
           /\ StatusOf(wire[i]) = SW_AF )
         => ( /\ InsOf(wire[i + 1]) = ADDITIONAL_FRAME
              /\ Len(wire[i + 1].apdu) >= 37
              /\ wire[i + 1].apdu[5] = 32 )

\* the card answered every transmission, all with 91 AF but the last with 91 00
ChainedAnswers ==
  /\ Len(wire) >= 2
  /\ Faults(wire) = 0
  /\ \A i \in 1..(Len(wire) - 1) : StatusOf(wire[i]) = SW_AF
  /\ StatusOf(wire[Len(wire)]) = SW_OK

\* C8: when the card answers a command and k >= 1 continuation requests with
\* 91 AF until the first 91 00, the caller gets the k+1 payloads concatenated
\* in order and exactly k ADDITIONAL_FRAME requests were sent.
C8_ReassemblesContinuations ==
  (pc = "done" /\ op.name \in {"getFileIDs", "readData"} /\ ChainedAnswers)
    => /\ result.ok
       /\ result.data = JoinPayloads(wire)
       /\ InsOf(wire[1]) # ADDITIONAL_FRAME
       /\ \A i \in 2..Len(wire) : InsOf(wire[i]) = ADDITIONAL_FRAME

\* readData was answered 91 AF, 91 AF, 91 00 and returned two 16-byte frames
C8_Witness ==
  /\ pc = "done" /\ op.name = "readData" /\ ChainedAnswers /\ Len(wire) = 3
  /\ Len(result.data) = 32

\* a continuation request was answered with a status that is neither success,
\* nor continuation, nor a length error
ContinuationRejected ==
  \E i \in 1..Len(wire) :
    /\ InsOf(wire[i]) = ADDITIONAL_FRAME
    /\ ~IsFault(wire[i])
    /\ ~APDU_isSuccess(StatusOf(wire[i])[1], StatusOf(wire[i])[2])
    /\ ~APDU_isAdditionalFrame(StatusOf(wire[i])[1], StatusOf(wire[i])[2])
    /\ ~IsLengthError(StatusOf(wire[i])[1], StatusOf(wire[i])[2])

\* C9: an operation whose continuation request the card rejects fails; it
\* never returns the partial payload as a result.
C9_RejectedContinuationFails ==
  (pc = "done" /\ op.name \in {"getFileIDs", "readData"} /\ ContinuationRejected)
    => ~result.ok

\* C10: when a command is accepted (success or continuation), preferNoLe is
\* true exactly when the APDU the card accepted carried no Le byte.
C10_PreferenceMatchesAccepted ==
  (pc = "parsed" /\ ret.ok
   /\ (APDU_isSuccess(ret.sw1, ret.sw2) \/ APDU_isAdditionalFrame(ret.sw1, ret.sw2)))
    => preferNoLe = ~CarriesLe(wire[Len(wire)].apdu)

\* an answered transmission that the card accepted, or answered with a
\* length error
Accepted(e) ==
  ~IsFault(e) /\ (APDU_isSuccess(StatusOf(e)[1], StatusOf(e)[2])
                  \/ APDU_isAdditionalFrame(StatusOf(e)[1], StatusOf(e)[2]))
LengthRejected(e) == ~IsFault(e) /\ IsLengthError(StatusOf(e)[1], StatusOf(e)[2])

\* C11: preferNoLe changes only in a step whose last transmission was
\* accepted in the form opposite to the preference, after the same command
\* was answered with a length error in the preferred form earlier in the
\* operation.
C11_PreferenceSticky ==
  [][preferNoLe' # preferNoLe =>
       LET n == Len(wire') IN
         /\ n >= 2
         /\ Accepted(wire'[n])
         /\ CarriesLe(wire'[n].apdu) = preferNoLe
         /\ \E j \in 1..(n - 1) :
              /\ LengthRejected(wire'[j])
              /\ CarriesLe(wire'[j].apdu) = ~preferNoLe
              /\ InsOf(wire'[j]) = InsOf(wire'[n])]_vars

\* C12: the first APDU an operation transmits has the form of the current
\* preference: no Le byte when preferNoLe is true, an Le byte when it is false.
C12_FirstFormFollowsPreference ==
  [][(wire = << >> /\ wire' # << >>) => CarriesLe(wire'[1].apdu) = ~preferNoLe]_vars

\* C13: in getVersion, when 90 60 00 00 is answered 91 7E the transmission
\* that follows it is 90 60 00 00 00.
C13_VersionResentWithLe ==
  op.name = "getVersion"
    => \A i \in 1..(Len(wire) - 1) :
         (wire[i].apdu = << 144, GET_VERSION, 0, 0 >> /\ LengthRejected(wire[i])
          /\ StatusOf(wire[i]) = SW_LENGTH_ERROR)
           => wire[i + 1].apdu = << 144, GET_VERSION, 0, 0, 0 >>

\* a status that is neither success, nor continuation, nor a length error
OtherStatus(e) == ~IsFault(e) /\ ~Accepted(e) /\ ~LengthRejected(e)

\* C14: a length-error status reaches the caller only after both Le forms of
\* the command were answered with a length error, and after any other
\* non-success status the command is not transmitted again.
C14_SecondFormIffLengthError ==
  /\ (pc = "done" /\ ~result.ok /\ IsLengthError(result.sw1, result.sw2))
       => \E i, j \in 1..Len(wire) :
            /\ LengthRejected(wire[i]) /\ LengthRejected(wire[j])
            /\ InsOf(wire[i]) = InsOf(wire[j])
            /\ CarriesLe(wire[i].apdu) # CarriesLe(wire[j].apdu)
  /\ \A i \in 1..Len(wire) : \A j \in (i + 1)..Len(wire) :
       OtherStatus(wire[i]) => InsOf(wire[j]) # InsOf(wire[i])

\* the transmissions a step adds to the wire
Sent == SubSeq(wire', Len(wire) + 1, Len(wire'))

\* the positions in log L where `apdu` went out on the transmit channel
Transmits(L, apdu) == {i \in 1..Len(L) : L[i].chan = "transmit" /\ L[i].apdu = apdu}

\* the APDUs that went out on the transmit channel in log L
Transmitted(L) == {L[i].apdu : i \in {k \in 1..Len(L) : L[k].chan = "transmit"}}

\* C15 (as stated): every APDU handed to transmit within one transmitParsed
\* call goes out twice when the first transmit raised and once when it did not.
C15_EveryTransmitRetriedOnce ==
  [][\A a \in Transmitted(Sent) :
       LET first == CHOOSE i \in Transmits(Sent, a) : \A k \in Transmits(Sent, a) : i <= k
       IN Cardinality(Transmits(Sent, a)) = IF Sent[first].exc THEN 2 ELSE 1]_vars

\* C15 (amended): the APDU of an encoding attempt goes out first; when that
\* transmit raised the same bytes follow exactly once, else they are not sent
\* again; the Le-toggled APDU goes out at most once, raised or not; and the
\* answer to a retransmission is parsed as the response of the attempt.
C15_AttemptRetriedOnce ==
  [][(pc = "try" /\ Sent # << >>) =>
       LET a == attempts[1].apdu IN
         /\ Sent[1].chan = "transmit" /\ Sent[1].apdu = a
         /\ Sent[1].exc => (Len(Sent) >= 2 /\ Sent[2].chan = "transmit" /\ Sent[2].apdu = a)
         /\ Cardinality(Transmits(Sent, a)) = IF Sent[1].exc THEN 2 ELSE 1
         /\ \A b \in Transmitted(Sent) \ {a} : Cardinality(Transmits(Sent, b)) = 1
         /\ (Sent[1].exc /\ Len(Sent[2].rx) >= 2)
              => /\ Len(Sent) = 2
                 /\ pc' = "parsed" => ret' = APDU_parse(Sent[2].rx)]_vars

\* a command whose first transmit raised and whose retransmission was
\* answered has returned its payload to the caller
C15_Witness ==
  /\ pc = "done" /\ result.ok /\ Len(wire) = 2
  /\ wire[1].exc /\ wire[2].apdu = wire[1].apdu /\ Accepted(wire[2])
  /\ result.data = PayloadOf(wire[2])

\* C16: the escape channel carries a command only on a reader that has it
\* and after both Le forms of that command went out on the transmit channel
\* without an answer of two bytes or more.
C16_EscapeAfterBothForms ==
  \A i \in 1..Len(wire) :
    wire[i].chan = "escape"
      => /\ acr
         /\ \E j, k \in 1..(i - 1) :
              /\ wire[j].chan = "transmit" /\ wire[k].chan = "transmit"
              /\ InsOf(wire[j]) = InsOf(wire[i]) /\ InsOf(wire[k]) = InsOf(wire[i])
              /\ IsFault(wire[j]) /\ IsFault(wire[k])
              /\ CarriesLe(wire[j].apdu) /\ ~CarriesLe(wire[k].apdu)

\* the data field of a command APDU that has one
DataField(apdu) == SubSeq(apdu, 6, 5 + apdu[5])

\* the caller's bytes in the i-th frame of a writeData: the lead frame
\* carries them after fileNo, offset and length
ChunkOf(w, i) ==
  IF i = 1 THEN SubSeq(DataField(w[1].apdu), 8, Len(DataField(w[1].apdu)))
  ELSE DataField(w[i].apdu)

RECURSIVE JoinChunks(_, _)
JoinChunks(w, i) == IF i > Len(w) THEN << >> ELSE ChunkOf(w, i) \o JoinChunks(w, i + 1)

C19_ChangeKeyEV2Command ==
  (pc = "done" /\ result.name = "changeKeyEV2"
   /\ authenticated /\ ~IsNull(sessionKeyEnc) /\ Len(op.data) = 16)
    => /\ wire # << >>
       /\ \A i \in 1..Len(wire) : InsOf(wire[i]) = CHANGE_KEY_EV2
       /\ Len(DataField(wire[1].apdu)) = 33
       /\ DataField(wire[1].apdu)[1] = op.keyNo

KeyOps == {"initializeKeySet", "rollKeySet", "finalizeKeySet", "changeKey",
           "changeKeySettings"}
AuthenticationRequired ==
  {"Authentication required for InitializeKeySet",
   "Authentication required for RollKeySet",
   "Authentication required for FinalizeKeySet",
   "Authentication required for ChangeKey",
   "Authentication required for ChangeKeySettings"}

\* C20: a key operation called while authenticated is false has failed with
\* the authentication-required error and has transmitted nothing.
C20_KeyOpsNeedAuthentication ==
  (op.name \in KeyOps /\ ~authenticated)
    => /\ pc = "done"
       /\ ~result.ok
       /\ result.err \in AuthenticationRequired
       /\ wire = << >>

\* rollKeySet was refused in a selected application that has no session
C20_Witness ==
  /\ pc = "done" /\ result.name = "rollKeySet" /\ ~authenticated
  /\ ~result.ok /\ wire = << >> /\ ~IsNull(currentApp)

\* C21: FORMAT_PICC is on the wire only while the session is authenticated
\* and the PICC level (application 0) is the current application.
C21_FormatNeedsPiccSession ==
  \A i \in 1..Len(wire) :
    InsOf(wire[i]) = FORMAT_PICC => (authenticated /\ currentApp = Some(0))

\* C24: after a successful authenticateDES(keyNo, key) the session is
\* authenticated with key number keyNo and holds no session key.
C24_DESSessionHasNoKeys ==
  (pc = "done" /\ result.name = "authenticateDES" /\ result.ok)
    => (authenticated /\ authenticatedKeyNo = Some(op.keyNo) /\ NoKeys)

\* the payload the second sendCommand of a handshake returned: the payloads
\* of the frames from the encrypted challenge on
ChallengeResponse ==
  LET k == CHOOSE i \in 1..Len(wire) :
             InsOf(wire[i]) = ADDITIONAL_FRAME /\ Len(wire[i].apdu) >= 37
  IN JoinPayloads(SubSeq(wire, k, Len(wire)))

\* C25: after a successful authenticateEV2First the transaction identifier is
\* the first four bytes of the card's second response, the command counter is
\* 0, the session is authenticated with the key number given and both
\* session keys are set.
C25_EV2FirstSession ==
  (pc = "done" /\ result.name = "authenticateEV2First" /\ result.ok)
    => /\ ~IsNull(transactionId)
       /\ Len(Value(transactionId)) = 4
       /\ Value(transactionId) = SubSeq(ChallengeResponse, 1, 4)
       /\ commandCounter = 0
       /\ authenticated
       /\ authenticatedKeyNo = Some(op.keyNo)
       /\ HasKeys

\* an EV2First handshake succeeded on a second response that arrived in two
\* frames
C25_Witness ==
  /\ pc = "done" /\ result.name = "authenticateEV2First" /\ result.ok
  /\ Len(wire) = 3 /\ Len(ChallengeResponse) > 20
  /\ ~IsNull(transactionId)

\* C26: currentApp changes only in the step in which selectApplication(aid)
\* returns successfully, and that step sets it to aid.
C26_CurrentAppOnlyBySelect ==
  [][/\ currentApp' # currentApp
          => (op.name = "selectApplication" /\ pc' = "done" /\ result'.ok)
     /\ (op.name = "selectApplication" /\ pc # "done" /\ pc' = "done" /\ result'.ok)
          => currentApp' = Some(op.aid)]_vars

\* with application 1 selected, selectApplication(0) has failed on a
\* transport fault and application 1 is still the current one
C26_Witness ==
  /\ pc = "done" /\ result.name = "selectApplication" /\ ~result.ok
  /\ op.aid = 0 /\ currentApp = Some(1)
  /\ \E i \in 1..Len(wire) : IsFault(wire[i])

\* C28: when tryTransmitAttempts has returned or thrown, the last response
\* received decides: with two bytes or more the result is SW1 SW2 from its
\* last two bytes and the payload from the bytes before them; with fewer,
\* or none, the result is the too-short error and never a parsed response.
C28_ParsedOrTooShort ==
  pc = "parsed"
    => LET rx == wire[Len(wire)].rx
           n == Len(rx)
       IN IF n >= 2
          THEN /\ ret.ok
               /\ ret.sw1 = rx[n - 1] /\ ret.sw2 = rx[n]
               /\ ret.data = SubSeq(rx, 1, n - 2)
          ELSE ~ret.ok /\ ret.err = "too short"

\* on a reader with the escape channel every fallback of a command came back
\* empty or raised, and the command has failed as too short
C28_Witness ==
  /\ pc = "parsed" /\ ~ret.ok /\ ret.err = "too short"
  /\ Len(wire) >= 2 /\ \A i \in 1..Len(wire) : IsFault(wire[i])
  /\ Len(wire[1].rx) = 1
  /\ \E i \in 1..Len(wire) : wire[i].chan = "escape"

\* the arguments APDU.build receives in the call being evaluated
BuildArgs ==
  IF call.fn = "APDU.build" THEN call.args
  ELSE << 144, call.args[1], 0, 0, call.args[2],
          IF IsNull(call.args[3]) THEN Some(0) ELSE call.args[3] >>

\* C29: APDU.build, for data absent or of 0..255 bytes (a zero-length Buffer
\* counting as no data), returns the header alone without data and Le, the
\* header and Le without data, header, Lc, data without Le, and header, Lc,
\* data, Le with both; Lc is the data length.
C29_BuildCases ==
  call.fn \in {"APDU.build", "APDU.buildDESFire"}
    => LET header == SubSeq(BuildArgs, 1, 4)
           data == BuildArgs[5]
           le == BuildArgs[6]
           noData == IsNull(data) \/ Value(data) = << >>
       IN /\ (noData /\ IsNull(le)) => call.out = header
          /\ (noData /\ ~IsNull(le)) => call.out = header \o << Value(le) >>
          /\ (~noData /\ IsNull(le))
               => call.out = header \o << Len(Value(data)) >> \o Value(data)
          /\ (~noData /\ ~IsNull(le))
               => call.out = header \o << Len(Value(data)) >> \o Value(data)
                               \o << Value(le) >>

C22_NoInterleaving ==
  [][\A h \in Handlers :
       (server.handler[h].at # "idle" /\ server'.handler[h] # server.handler[h])
         => \A g \in Handlers \ {h} : server.handler[g].sent = 0]_vars

\* C23: a payment handler sends CommitTransaction only after it has sent the
\* credit or debit and then the write of the record to the history file.
C23_RecordBeforeCommit ==
  \A h \in Handlers :
    LET H == server.handler[h] IN
    H.route \in {"credit", "debit"}
      => \A k \in 1..Len(H.log) :
           H.log[k].ins = COMMIT_TRANSACTION
             => \E i, j \in 1..(k - 1) :
                  /\ i < j
                  /\ H.log[i].ins \in {CREDIT, DEBIT}
                  /\ H.log[j] = [ins |-> WRITE_DATA, fileNo |-> Some(FILE_TX_HISTORY)]


\* the application identifier in the data field of a SELECT_APPLICATION
AidOf(apdu) ==
  LET d == DataField(apdu) IN d[1] + 256 * d[2] + 65536 * d[3]

\* the SELECT_APPLICATION transmissions the card answered with success
AcceptedSelects(w) ==
  {i \in 1..Len(w) : /\ ~IsFault(w[i])
                     /\ InsOf(w[i]) = SELECT_APPLICATION
                     /\ StatusOf(w[i]) = SW_OK}

\* C31: when an operation has returned, currentApp is the application of the
\* last SELECT_APPLICATION frame of that operation that the card accepted,
\* the PICC re-select of getVersion's recovery included (a card object that
\* never selected anything counts as being at the PICC level).
C31_CurrentAppIsSelected ==
  (pc = "done" /\ AcceptedSelects(wire) # {})
    => LET last == CHOOSE i \in AcceptedSelects(wire) :
                     \A j \in AcceptedSelects(wire) : j <= i
           aid == AidOf(wire[last].apdu)
       IN currentApp = Some(aid) \/ (aid = 0 /\ IsNull(currentApp))

\* C32: writeData puts an ADDITIONAL_FRAME chunk on the wire only after the
\* card answered the frame before it with continuation (or rejected the
\* length of that same chunk sent with Le), and returns successfully only
\* when the card answered the final frame with success.
C32_WriteFollowsCard ==
  op.name = "writeData"
    => /\ \A i \in 2..Len(wire) :
            \/ (~IsFault(wire[i - 1]) /\ StatusOf(wire[i - 1]) = SW_AF)
            \/ (LengthRejected(wire[i - 1])
                /\ DataField(wire[i].apdu) = DataField(wire[i - 1].apdu))
       /\ (pc = "done" /\ result.ok)
            => (~IsFault(wire[Len(wire)]) /\ StatusOf(wire[Len(wire)]) = SW_OK)

\* the cipher block of a handshake: 8 bytes for DES, 16 for the AES ones
BlockSize(name) == IF name = "authenticateDES" THEN 8 ELSE 16

\* the card answered a handshake frame of the operation `name` with success
\* and a cryptogram shorter than the cipher block: the encrypted RndB after
\* the authenticate command, or the encrypted RndA' after the challenge
\* (which follows the 4-byte transaction identifier in EV2First)
ShortCryptogram(name, w) ==
  \E i \in 1..Len(w) :
    /\ ~IsFault(w[i])
    /\ StatusOf(w[i]) = SW_OK
    /\ \/ /\ InsOf(w[i]) \in {AUTHENTICATE, AUTHENTICATE_AES, AUTHENTICATE_EV2_FIRST,
                              AUTHENTICATE_EV2_NON_FIRST}
          /\ Len(PayloadOf(w[i])) < BlockSize(name)
       \/ /\ InsOf(w[i]) = ADDITIONAL_FRAME
          /\ Len(w[i].apdu) > 5
          /\ Len(PayloadOf(w[i])) <
               BlockSize(name) + (IF name = "authenticateEV2First" THEN 4 ELSE 0)

\* C33: a handshake in which the card sent an encrypted RndB or RndA' shorter
\* than the cipher block (an empty one included) fails.
C33_ShortCryptogramFails ==
  (pc = "done" /\ result.name \in AuthOps /\ ShortCryptogram(result.name, wire))
    => ~result.ok

\* the i-th transmission is the last resort of transmitParsed: the APDU of
\* the failed transmission before it, sent with its Le presence toggled
IsToggle(w, i) ==
  /\ i > 1
  /\ w[i].chan = "transmit"
  /\ IsFault(w[i - 1])
  /\ ToggledApdu(w[i - 1].apdu) = Some(w[i].apdu)

\* C34: an APDU with toggled Le presence is retransmitted only on a reader
\* without the escape capability, and at most once for each command.
C34_ToggleOnlyWithoutEscape ==
  \A i \in 1..Len(wire) :
    IsToggle(wire, i)
      => /\ ~acr
         /\ \A j \in 1..Len(wire) :
              (IsToggle(wire, j) /\ InsOf(wire[j]) = InsOf(wire[i])) => j = i

\* a continuation request: ADDITIONAL_FRAME without data, in either Le form
IsAFRequest(e) ==
  e.apdu \in {<< 144, ADDITIONAL_FRAME, 0, 0 >>, << 144, ADDITIONAL_FRAME, 0, 0, 0 >>}

AFRequests(w) == {i \in 1..Len(w) : IsAFRequest(w[i])}

\* C35 (as stated): every continuation request on the wire directly follows
\* an answer with status 91 AF, and an operation sends no more continuation
\* requests than the card gave 91 AF answers.
C35_RequestPerContinuation ==
  /\ \A i \in AFRequests(wire) : i > 1 /\ IsContinuation(wire[i - 1])
  /\ Cardinality(AFRequests(wire)) <= Continuations(wire)

\* transmissions i..j are one continuation request and its retransmissions
SameRequest(w, i, j) ==
  /\ \A k \in i..j : IsAFRequest(w[k])
  /\ \A k \in i..(j - 1) : ~IsContinuation(w[k])

\* C35 (amended): every continuation request on the wire directly follows
\* an answer with status 91 AF, or is the retransmission of the continuation
\* request before it, which the card rejected for its length or which got no
\* response; of the transmissions of one request the card rejects at most
\* two for their length, and no continuation request follows any other
\* answer.
C35_RequestOrRetransmission ==
  /\ \A i \in AFRequests(wire) :
       /\ i > 1
       /\ \/ IsContinuation(wire[i - 1])
          \/ /\ IsAFRequest(wire[i - 1])
             /\ IsFault(wire[i - 1]) \/ LengthRejected(wire[i - 1])
  /\ \A i \in 1..Len(wire) : \A j \in i..Len(wire) :
       SameRequest(wire, i, j)
         => Cardinality({k \in i..j : LengthRejected(wire[k])}) <= 2

\* an operation has returned what it collected after the card rejected the
\* first form of a continuation request and accepted the second
C35_Witness ==
  /\ pc = "done" /\ result.ok
  /\ \E i \in 2..(Len(wire) - 1) :
       /\ IsContinuation(wire[i - 1])
       /\ IsAFRequest(wire[i]) /\ LengthRejected(wire[i])
       /\ IsAFRequest(wire[i + 1]) /\ Accepted(wire[i + 1])

\* C37: the card status reports a card present only while a card lies on
\* the reader.
C37_PresentOnlyWhileOnReader == server.present => server.onReader

\* a payment request is being handled
PaymentRunning ==
  \E h \in Handlers :
    server.handler[h].route \in {"credit", "debit"} /\ server.handler[h].at # "idle"

\* C36: once the payment requests received so far are answered, the record
\* count in the metadata file is the number of payments that succeeded, and
\* the record of the i-th of them (counting from 0) lies at offset 24 * i of
\* the history file.
C36_CountMatchesRecords ==
  ~PaymentRunning
    => /\ server.card.count = Len(server.paid)
       /\ \A i \in 1..Len(server.paid) :
            [offset |-> TX_RECORD_SIZE * (i - 1), id |-> server.paid[i]]
              \in server.card.history

\* C38: a debit handler puts the first frame of its DEBIT on the reader only
\* when its amount does not exceed the value the balance file holds then.
C38_DebitWithinBalance ==
  [][\A h \in Handlers :
       LET H == server.handler[h] IN
       (H.route = "debit" /\ H.at = "value" /\ H.sent = 0 /\ server'.handler[h] # H)
         => H.amount <= server.card.balance]_vars
====
